---- MODULE Spec2Model ----
(***************************************************************************)
(* Model of the reminder application of src/gui.py: the ReminderApp       *)
(* window (the UI thread and its handlers add_reminder, delete_reminder,  *)
(* edit_reminder_dialog, load_reminders, save_reminders) and the           *)
(* ReminderCheckerThread objects it starts and stops.                      *)
(*                                                                         *)
(* Python objects are modelled with their identity: `rec` is the heap of   *)
(* reminder dicts, `lists` the heap of list objects, `thr` the heap of     *)
(* ReminderCheckerThread objects.  self.reminders and the reminders        *)
(* attribute of a thread are references into `lists`.                      *)
(***************************************************************************)
EXTENDS Integers, Sequences, FiniteSets, TLC

\* ---------------------------------------------------------------- bounds
MaxTime == 1          \* the clock runs over 0..MaxTime
MaxFile == 1          \* records in reminders.json at start
MaxReminders == 1     \* reminder dicts of one run, all threads interleaved
MaxStore == 2         \* reminder dicts of one run, handlers one at a time
MaxScan == 2          \* reminder dicts of the store one wake scans

\* ------------------------------------------------------------- constants
Threads == {1, 2}     \* slots for live ReminderCheckerThread objects
ListIds == {1, 2, 3}  \* slots for live list objects
None == 0             \* Python None, for object references
Day == 2              \* ticks of the clock in a day

DateTimes == 0 .. (MaxTime + 1)
\* what the user can type into a line edit, and the texts after strip()
RawTexts == { <<>>, <<" ">>, <<" ", "a", " ">> }
OneText == { <<"a">> }
TwoTexts == { <<"a">>, <<"b">> }
Chars == {" ", "a", "b"}   \* the characters of the texts

VARIABLES
  now,              \* datetime.now()
  file,             \* content of SETTINGS_FILE
  rec,              \* heap of reminder dicts (a sequence: index = identity)
  lists,            \* heap of list objects: ListIds -> Seq(index into rec)
  reminders,        \* ReminderApp.reminders: a reference into lists
  reminder_list,    \* the QListWidget: the UserRole data of its items
  reminder_thread,  \* ReminderApp.reminder_thread: a reference into thr
  thr,              \* heap of ReminderCheckerThread objects
  ui,               \* the UI thread: [pc, op, printed]
  dialog,           \* text of the QMessageBox.warning that is open
  emits,            \* history: the titles of the due-events emitted for each
                    \* dict since it was created or last had notified reset
  PLYER_AVAILABLE,  \* whether `from plyer import notification` succeeded
  delivered,        \* for each dict, how many of its emits the slot
                    \* show_notification has been run for
  shown,            \* the last notification show_notification put up
  tray_visible,     \* self.tray_icon.isVisible(): the desktop has a tray
  is_hidden,        \* ReminderApp.is_hidden: the window is hidden to the tray
  earlier           \* history: the ids of the reminders whose due-event
                    \* was emitted in a run of the program that has ended

vars == <<now, file, rec, lists, reminders, reminder_list, reminder_thread,
          thr, ui, dialog, emits, PLYER_AVAILABLE, delivered, shown,
          tray_visible, is_hidden, earlier>>

\* ------------------------------------------------------------ pure parts

RECURSIVE LStrip(_)
LStrip(s) == IF s # <<>> /\ Head(s) = " " THEN LStrip(Tail(s)) ELSE s

RECURSIVE RStrip(_)
RStrip(s) ==
  IF s # <<>> /\ s[Len(s)] = " " THEN RStrip(SubSeq(s, 1, Len(s) - 1)) ELSE s

\* a strip() that leaves the blanks in
Strip_none(s) == s

\* str.strip() on the line edit's text
Strip(s) == RStrip(LStrip(s))

\* ids are floats: a timestamp, or NaN, which json.load accepts in the file
Stamp(n) == [stamp |-> n]
NaN == [nan |-> TRUE]

\* an == that is never true
IdEq_never(a, b) == FALSE

\* r['id'] == reminder_id on floats: NaN is equal to nothing, itself included
IdEq(a, b) == a # NaN /\ b # NaN /\ a = b

\* a clock too coarse to tell two adds apart
Timestamp_coarse(h) == Stamp(1)

\* datetime.now().timestamp() in add_reminder: a reading of the clock at a
\* resolution finer than any handler's duration, so later than every earlier
\* reading of the run
Timestamp(h) == Stamp(Len(h) + 1)

\* datetime.isoformat() / datetime.fromisoformat()
IsoFormat(dt) == [iso |-> dt]
\* a parse that loses the time
FromIsoFormat_epoch(s) == 0
FromIsoFormat(s) == s.iso

\* an insertion at the front, whatever the dates
InsertByDate_front(h, s, r) == <<r>> \o s

\* the insertion step of the sort
RECURSIVE InsertByDate(_, _, _)
InsertByDate(h, s, r) ==
  IF s = <<>> THEN <<r>>
  ELSE IF h[r].dateTime < h[Head(s)].dateTime THEN <<r>> \o s
  ELSE <<Head(s)>> \o InsertByDate(h, Tail(s), r)

\* a sort that leaves the list as it is
SortByDate_unsorted(h, s) == s

\* list.sort(key=lambda r: r['dateTime']): stable, ascending
RECURSIVE SortByDate(_, _)
SortByDate(h, s) ==
  IF s = <<>> THEN <<>>
  ELSE InsertByDate(h, SortByDate(h, SubSeq(s, 1, Len(s) - 1)), s[Len(s)])

Range(s) == { s[k] : k \in 1 .. Len(s) }

\* the records of the list self.reminders refers to
Store == lists[reminders]

\* ------------------------------------------------------- persistence

\* a save that misses the last record of the store
save_reminders_truncated(h, s) ==
  [k \in 1 .. (Len(s) - 1) |->
     [id |-> h[s[k]].id, text |-> h[s[k]].text,
      dateTime |-> IsoFormat(h[s[k]].dateTime), notified |-> h[s[k]].notified]]

\* save_reminders: one JSON object per dict, dateTime in ISO format
save_reminders(h, s) ==
  [k \in 1 .. Len(s) |->
     [id |-> h[s[k]].id, text |-> h[s[k]].text,
      dateTime |-> IsoFormat(h[s[k]].dateTime), notified |-> h[s[k]].notified]]

\* what reminders.json is when open() or json.load raises: there is no
\* file, or the file is empty or is not JSON
NoFile == <<[error |-> "FileNotFoundError"]>>
NotJson == <<[error |-> "JSONDecodeError"]>>
Unreadable(f) == f \in {NoFile, NotJson}

\* a JSON number where the text of a reminder is expected: json.load makes
\* it an int, not a str
Number == <<"5">>
IsStr(v) == \A k \in 1 .. Len(v) : v[k] \in Chars

\* a string that datetime.fromisoformat raises ValueError for
NotIso == [str |-> "soon"]

\* the try block of the loop of load_reminders goes through for the item:
\* item['dateTime'] is there and fromisoformat parses it
Loadable(item) == "dateTime" \in DOMAIN item /\ "iso" \in DOMAIN item.dateTime

\* the dict the loop appends: the JSON object itself with its dateTime
\* parsed and notified set to False if it had none
LoadItem(item) ==
  [key \in DOMAIN item \cup {"notified"} |->
     IF key = "dateTime" THEN FromIsoFormat(item.dateTime)
     ELSE IF key \in DOMAIN item THEN item[key]
     ELSE FALSE]

\* load_reminders up to its sort: no dict if the file cannot be read, else
\* one dict per JSON object that goes through the try block
load_reminders(f) ==
  IF Unreadable(f) THEN <<>>
  ELSE LET items == SelectSeq(f, Loadable)
       IN [k \in 1 .. Len(items) |-> LoadItem(items[k])]

\* update_list: one item per dict, carrying the dict's id
update_list(h, s) == [k \in 1 .. Len(s) |-> h[s[k]].id]

\* reminder['text'] and reminder['id'] in update_list do not raise KeyError
Displayable(d) == {"text", "id"} \subseteq DOMAIN d

\* the items update_list has added when it raises KeyError
update_list_raised(h, s) ==
  LET bad == CHOOSE k \in 1 .. Len(s) :
               ~ Displayable(h[s[k]]) /\ \A j \in 1 .. (k - 1) : Displayable(h[s[j]])
  IN update_list(h, SubSeq(s, 1, bad - 1))

\* ------------------------------------------------------- thread objects

NoThread ==
  [pc |-> "none", running |-> FALSE, reminders |-> None, now_aware |-> 0,
   snap |-> <<>>, i |-> 0]

\* ReminderCheckerThread(reminders) followed by start()
NewThread(l) == [NoThread EXCEPT !.pc = "start", !.running = TRUE,
                                 !.reminders = l]

Alive(t) == thr[t].pc \notin {"none", "done"}

\* a list object nobody refers to is freed
Collect(ls, refs) == [l \in ListIds |-> IF l \in refs THEN ls[l] ELSE <<>>]

ThreadRefs(th) == { th[t].reminders : t \in { u \in Threads : th[u].pc # "none" } }

\* ---------------------------------------------------------------- Init

\* the JSON objects an earlier run of the program can have saved at place
\* k of the file: ids are earlier readings of the clock
SavedRecs(k, texts) ==
  [id : {Stamp(0 - k)}, text : texts,
   dateTime : { IsoFormat(d) : d \in DateTimes }, notified : BOOLEAN]

FilesOf(n, texts) ==
  { f \in [1 .. n -> UNION { SavedRecs(k, texts) : k \in 1 .. n }] :
      \A k \in 1 .. n : f[k] \in SavedRecs(k, texts) }

Files(max, texts) == UNION { FilesOf(n, texts) : n \in 0 .. max }

\* the record [id, text, dateTime, notified] without the field `key`
Without(item, key) == [k \in DOMAIN item \ {key} |-> item[k]]

\* JSON objects at place k that no run of the program saves: one whose
\* dateTime is no ISO date, one whose text is a number, and ones with a
\* field missing
CorruptRecs(k) ==
  LET item == [id |-> Stamp(0 - k), text |-> <<"a">>,
               dateTime |-> IsoFormat(0), notified |-> FALSE]
  IN { [item EXCEPT !.dateTime = NotIso], [item EXCEPT !.text = Number] }
       \cup { Without(item, key) : key \in DOMAIN item }

\* reminders.json as anything may have left it: missing or not JSON, or an
\* array of up to MaxScan objects, saved ones and corrupt ones
AnyFiles ==
  {NoFile, NotJson} \cup
  UNION { { f \in [1 .. n -> UNION { SavedRecs(k, OneText) \cup CorruptRecs(k)
                                       : k \in 1 .. n }] :
              \A k \in 1 .. n : f[k] \in SavedRecs(k, OneText) \cup CorruptRecs(k) }
          : n \in 0 .. MaxScan }

\* nothing has been shown yet
NoNotification == [how |-> "none", title |-> <<>>, message |-> ""]

\* the process before ReminderApp() is constructed, the file being `f`
Start(f) ==
  /\ file = f
  /\ rec = <<>>
  /\ lists = [l \in ListIds |-> <<>>]
  /\ reminders = 1
  /\ reminder_list = <<>>
  /\ reminder_thread = None
  /\ thr = [t \in Threads |-> NoThread]
  /\ ui = [pc |-> "init", op |-> "none", printed |-> "none"]
  /\ dialog = "none"
  /\ emits = <<>>
  /\ delivered = <<>>
  /\ shown = NoNotification
  /\ is_hidden = FALSE
  /\ earlier = {}

Init ==
  /\ now = 0
  /\ PLYER_AVAILABLE = TRUE
  /\ tray_visible = TRUE
  /\ \E f \in Files(MaxFile, OneText) : Start(f)

\* ---------------------------------------------------------------- clock

Tick ==
  /\ now < MaxTime
  /\ now' = now + 1
  /\ UNCHANGED <<file, rec, lists, reminders, reminder_list, reminder_thread,
                 thr, ui, dialog, emits,
                 PLYER_AVAILABLE, delivered, shown,
                 tray_visible, is_hidden, earlier>>

\* ------------------------------------------------- ReminderApp.__init__

\* load_reminders (which ends with stop_reminder_thread, a no-op while
\* there is no reminder_thread attribute, and start_reminder_thread) and
\* then start_reminder_thread again.  A dict loaded as notified had its
\* due-event in an earlier run: the history starts with it.  The
\* update_list of load_reminders is outside its try block: a KeyError it
\* raises leaves load_reminders and __init__, and the process ends with
\* the traceback before any thread is started
ReminderApp_init ==
  /\ ui.pc = "init"
  /\ rec' = load_reminders(file)
  /\ lists' = [lists EXCEPT ![1] = SortByDate(rec', [k \in 1 .. Len(rec') |-> k])]
  /\ reminders' = 1
  /\ IF \A k \in 1 .. Len(rec') : Displayable(rec'[k])
     THEN /\ reminder_list' = update_list(rec', lists'[1])
          /\ thr' = [thr EXCEPT ![1] = NewThread(1), ![2] = NewThread(1)]
          /\ reminder_thread' = 2
          /\ ui' = [pc |-> "idle", op |-> "none", printed |-> "none"]
          /\ emits' = [k \in 1 .. Len(rec') |->
                         IF rec'[k].notified THEN <<rec'[k].text>> ELSE <<>>]
          /\ delivered' = [k \in 1 .. Len(rec') |-> Len(emits'[k])]
     ELSE /\ reminder_list' = update_list_raised(rec', lists'[1])
          /\ ui' = [pc |-> "crashed", op |-> "none", printed |-> "KeyError"]
          /\ emits' = [k \in 1 .. Len(rec') |-> <<>>]
          /\ delivered' = [k \in 1 .. Len(rec') |-> 0]
          /\ UNCHANGED <<thr, reminder_thread>>
  /\ UNCHANGED <<now, file, dialog,
                 PLYER_AVAILABLE, shown,
                 tray_visible, is_hidden, earlier>>

\* ------------------------------------------- ReminderCheckerThread.run

\* the for loop moves to the next element of the copy, or ends and the
\* thread sleeps (the locals of the loop body are dropped)
NextElement(th) ==
  IF th.i < Len(th.snap)
  THEN [th EXCEPT !.pc = "scan", !.i = th.i + 1]
  ELSE [th EXCEPT !.pc = "sleep", !.i = 0, !.snap = <<>>, !.now_aware = 0]

\* `while self.running:` then now_aware and the copy list(self.reminders);
\* run() returns when the flag is cleared
RunLoop(t) ==
  /\ thr[t].pc \in {"start", "sleep"}
  /\ IF thr[t].running
     THEN thr' = [thr EXCEPT ![t] =
                    NextElement([thr[t] EXCEPT !.now_aware = now,
                                               !.snap = lists[thr[t].reminders],
                                               !.i = 0])]
     ELSE thr' = [thr EXCEPT ![t] = [NoThread EXCEPT !.pc = "done",
                                       !.reminders = thr[t].reminders]]
  /\ UNCHANGED <<now, file, rec, lists, reminders, reminder_list,
                 reminder_thread, ui, dialog, emits,
                 PLYER_AVAILABLE, delivered, shown,
                 tray_visible, is_hidden, earlier>>

\* strftime('%H:%M'): the time of day, the day being Day ticks of the clock
HourMinute(dt) == ToString(dt % Day)

\* the message of the due-event (line 111)
Message(dt) == "Reminder set for " \o HourMinute(dt)

\* the condition without its test of notified
IsDue_ignoresNotified(r, now_aware) == r.dateTime <= now_aware

\* the condition of line 108
IsDue(r, now_aware) == ~ r.notified /\ r.dateTime <= now_aware

\* the body of the for loop for one element, up to the emit of
\* reminder_due_signal.  The signal is a pyqtSignal(str, str): emit raises
\* TypeError for a title that is not a str, and run(), which catches
\* nothing, ends there with self.running still True
RunCheck(t) ==
  /\ thr[t].pc = "scan"
  /\ LET r == thr[t].snap[thr[t].i] IN
       IF IsDue(rec[r], thr[t].now_aware) /\ ~ IsStr(rec[r].text)
       THEN /\ thr' = [thr EXCEPT ![t] = [NoThread EXCEPT
                                           !.pc = "done", !.running = TRUE,
                                           !.reminders = thr[t].reminders]]
            /\ emits' = emits
       ELSE IF IsDue(rec[r], thr[t].now_aware)
       THEN /\ thr' = [thr EXCEPT ![t].pc = "mark"]
            /\ emits' = [emits EXCEPT ![r] = Append(@, rec[r].text)]
       ELSE /\ thr' = [thr EXCEPT ![t] = NextElement(@)]
            /\ emits' = emits
  /\ UNCHANGED <<now, file, rec, lists, reminders, reminder_list,
                 reminder_thread, ui, dialog,
                 PLYER_AVAILABLE, delivered, shown,
                 tray_visible, is_hidden, earlier>>

\* the loop body without line 112
RunMark_unmarked(t) ==
  /\ thr[t].pc = "mark"
  /\ thr' = [thr EXCEPT ![t] = NextElement(@)]
  /\ UNCHANGED <<now, file, rec, lists, reminders, reminder_list,
                 reminder_thread, ui, dialog, emits,
                 PLYER_AVAILABLE, delivered, shown,
                 tray_visible, is_hidden, earlier>>

\* a line 112 that flips the flag
RunMark_toggles(t) ==
  /\ thr[t].pc = "mark"
  /\ rec' = [rec EXCEPT ![thr[t].snap[thr[t].i]].notified = ~ @]
  /\ thr' = [thr EXCEPT ![t] = NextElement(@)]
  /\ UNCHANGED <<now, file, lists, reminders, reminder_list, reminder_thread,
                 ui, dialog, emits,
                 PLYER_AVAILABLE, delivered, shown,
                 tray_visible, is_hidden, earlier>>

\* reminder['notified'] = True, and on to the next element
RunMark(t) ==
  /\ thr[t].pc = "mark"
  /\ rec' = [rec EXCEPT ![thr[t].snap[thr[t].i]].notified = TRUE]
  /\ thr' = [thr EXCEPT ![t] = NextElement(@)]
  /\ UNCHANGED <<now, file, lists, reminders, reminder_list, reminder_thread,
                 ui, dialog, emits,
                 PLYER_AVAILABLE, delivered, shown,
                 tray_visible, is_hidden, earlier>>

\* --------------------------------------------------- the UI's handlers

\* self.reminder_thread.stop(), up to the wait(): the flag is cleared
stop(th, t) == [th EXCEPT ![t].running = FALSE]

\* a list object for a new list: a slot nothing refers to
FreeList == CHOOSE l \in ListIds : l \notin ({reminders} \cup ThreadRefs(thr))

\* a slot for a new thread object: one whose thread has exited
FreeThread == CHOOSE t \in Threads : ~ Alive(t)

\* the first dict of the list with this id (the for loops of lines 326, 349)
FindById(h, s, id) ==
  LET hits == { k \in 1 .. Len(s) : IdEq(h[s[k]].id, id) } IN
    IF hits = {} THEN None
    ELSE s[CHOOSE k \in hits : \A j \in hits : k <= j]

\* add_reminder, up to the wait() in stop_reminder_thread
add_reminder(raw, q_datetime) ==
  /\ ui.pc = "idle"
  /\ LET text == Strip(raw) IN
       IF text = <<>>
       THEN /\ dialog' = "Reminder text cannot be empty."
            /\ ui' = [ui EXCEPT !.pc = "box"]
            /\ UNCHANGED <<file, rec, lists, reminder_list, thr, emits, delivered>>
       ELSE IF q_datetime <= now
       THEN /\ dialog' = "Please select a future date and time."
            /\ ui' = [ui EXCEPT !.pc = "box"]
            /\ UNCHANGED <<file, rec, lists, reminder_list, thr, emits, delivered>>
       ELSE /\ rec' = Append(rec, [id |-> Timestamp(rec), text |-> text,
                                   dateTime |-> q_datetime, notified |-> FALSE])
            /\ lists' = [lists EXCEPT ![reminders] =
                           SortByDate(rec', Append(Store, Len(rec')))]
            /\ reminder_list' = update_list(rec', lists'[reminders])
            /\ file' = save_reminders(rec', lists'[reminders])
            /\ thr' = stop(thr, reminder_thread)
            /\ ui' = [pc |-> "join", op |-> "add", printed |-> "none"]
            /\ dialog' = "none"
            /\ emits' = Append(emits, <<>>)
            /\ delivered' = Append(delivered, 0)
  /\ UNCHANGED <<now, reminders, reminder_thread,
                 PLYER_AVAILABLE, shown,
                 tray_visible, is_hidden, earlier>>

\* delete_reminder, up to the wait() in stop_reminder_thread; sel = 0 is
\* no current item, confirm is the answer to the question box
delete_reminder(sel, confirm) ==
  /\ ui.pc = "idle"
  /\ IF sel = 0
     THEN /\ dialog' = "Please select a reminder to delete."
          /\ ui' = [ui EXCEPT !.pc = "box"]
          /\ UNCHANGED <<file, lists, reminders, reminder_list, thr>>
     ELSE IF ~ confirm
     THEN /\ dialog' = "none"
          /\ UNCHANGED <<file, lists, reminders, reminder_list, thr, ui>>
     ELSE LET reminder_id == reminder_list[sel]
              kept == SelectSeq(Store, LAMBDA r : ~ IdEq(rec[r].id, reminder_id))
              l == FreeList
          IN /\ lists' = [lists EXCEPT ![l] = kept]
             /\ reminders' = l
             /\ reminder_list' = update_list(rec, kept)
             /\ file' = save_reminders(rec, kept)
             /\ thr' = stop(thr, reminder_thread)
             /\ ui' = [pc |-> "join", op |-> "delete", printed |-> "none"]
             /\ dialog' = "none"
  /\ UNCHANGED <<now, rec, reminder_thread, emits,
                 PLYER_AVAILABLE, delivered, shown,
                 tray_visible, is_hidden, earlier>>

\* the condition without its test of notified
ResetsNotified_pastDueOnly(r, original_time, new_datetime, now_aware) ==
  new_datetime > now_aware /\ original_time <= now_aware

\* the condition of line 385
ResetsNotified(r, original_time, new_datetime, now_aware) ==
  new_datetime > now_aware /\ (r.notified \/ original_time <= now_aware)

\* edit_reminder_dialog on the item at sel, up to the wait() in
\* stop_reminder_thread; accepted, raw and new_datetime are what the
\* dialog returns
edit_reminder_dialog(sel, accepted, raw, new_datetime) ==
  /\ ui.pc = "idle"
  /\ LET reminder_to_edit == FindById(rec, Store, reminder_list[sel])
         new_text == Strip(raw)
     IN
       IF reminder_to_edit = None
       THEN /\ dialog' = "Could not find reminder data to edit."
            /\ ui' = [ui EXCEPT !.pc = "box"]
            /\ UNCHANGED <<file, rec, lists, reminder_list, thr, emits, delivered>>
       ELSE IF ~ accepted
       THEN /\ dialog' = "none"
            /\ UNCHANGED <<file, rec, lists, reminder_list, thr, ui, emits, delivered>>
       ELSE IF new_text = <<>>
       THEN /\ dialog' = "Reminder text cannot be empty."
            /\ ui' = [ui EXCEPT !.pc = "box"]
            /\ UNCHANGED <<file, rec, lists, reminder_list, thr, emits, delivered>>
       ELSE IF new_datetime <= now
       THEN /\ dialog' = "Cannot set reminder time to the past or present."
            /\ ui' = [ui EXCEPT !.pc = "box"]
            /\ UNCHANGED <<file, rec, lists, reminder_list, thr, emits, delivered>>
       ELSE LET old == rec[reminder_to_edit]
                reset == ResetsNotified(old, old.dateTime, new_datetime, now)
            IN /\ rec' = [rec EXCEPT ![reminder_to_edit] =
                            [old EXCEPT !.text = new_text,
                                        !.dateTime = new_datetime,
                                        !.notified = IF reset THEN FALSE ELSE @]]
               /\ emits' = [emits EXCEPT ![reminder_to_edit] =
                              IF reset THEN <<>> ELSE @]
               /\ delivered' = [delivered EXCEPT ![reminder_to_edit] =
                                  IF reset THEN 0 ELSE @]
               /\ lists' = [lists EXCEPT ![reminders] = SortByDate(rec', Store)]
               /\ reminder_list' = update_list(rec', lists'[reminders])
               /\ file' = save_reminders(rec', lists'[reminders])
               /\ thr' = stop(thr, reminder_thread)
               /\ ui' = [pc |-> "join", op |-> "edit",
                         printed |-> IF reset THEN "Resetting notification status"
                                     ELSE "none"]
               /\ dialog' = "none"
  /\ UNCHANGED <<now, reminders, reminder_thread,
                 PLYER_AVAILABLE, shown,
                 tray_visible, is_hidden, earlier>>

\* QMessageBox.warning returns when the user closes the box, and the handler
\* returns
message_box_closed ==
  /\ ui.pc = "box"
  /\ ui' = [ui EXCEPT !.pc = "idle"]
  /\ dialog' = "none"
  /\ UNCHANGED <<now, file, rec, lists, reminders, reminder_list,
                 reminder_thread, thr, emits,
                 PLYER_AVAILABLE, delivered, shown,
                 tray_visible, is_hidden, earlier>>

\* the text of the fallback box
Fallback(message) == message \o " (Error displaying native notification)"

\* a slot that swallows the failure of notification.notify
show_notification_drops(r, raises) ==
  /\ ui.pc = "idle"
  /\ delivered[r] < Len(emits[r])
  /\ IF ~ PLYER_AVAILABLE \/ raises
     THEN shown' = shown
     ELSE shown' = [how |-> "native", title |-> emits[r][delivered[r] + 1],
                    message |-> Message(rec[r].dateTime)]
  /\ delivered' = [delivered EXCEPT ![r] = @ + 1]
  /\ UNCHANGED <<now, file, rec, lists, reminders, reminder_list,
                 reminder_thread, thr, emits, PLYER_AVAILABLE, dialog, ui,
                 tray_visible, is_hidden, earlier>>

\* show_notification, the slot of reminder_due_signal: the event loop of the
\* UI thread runs it once for every emit, here for the next emit of dict `r`
\* it has not been run for.  The title is the one emitted; the message is
\* the one run() formatted from the dict's dateTime, which no handler has
\* changed since (an edit that changes it clears the dict's emits).
\* `raises` is whether notification.notify raises.  The fallback
\* QMessageBox.information is modal, as the warnings of the handlers are
show_notification(r, raises) ==
  /\ ui.pc = "idle"
  /\ delivered[r] < Len(emits[r])
  /\ LET title == emits[r][delivered[r] + 1]
         message == Message(rec[r].dateTime)
     IN IF ~ PLYER_AVAILABLE \/ raises
        THEN /\ shown' = [how |-> "box", title |-> title,
                          message |-> Fallback(message)]
             /\ dialog' = Fallback(message)
             /\ ui' = [ui EXCEPT !.pc = "box"]
        ELSE /\ shown' = [how |-> "native", title |-> title,
                          message |-> message]
             /\ UNCHANGED <<dialog, ui>>
  /\ delivered' = [delivered EXCEPT ![r] = @ + 1]
  /\ UNCHANGED <<now, file, rec, lists, reminders, reminder_list,
                 reminder_thread, thr, emits, PLYER_AVAILABLE,
                 tray_visible, is_hidden, earlier>>

\* a wait() that does not wait
wait_nowait(th) == TRUE

\* QThread.wait(): returns once run() has returned, at once if it already has
wait(th) == th.pc = "done"

\* the rest of the handler: wait() returns once run() has returned and
\* stop_reminder_thread prints (line 226), then start_reminder_thread binds a
\* new thread to self.reminders
restart_reminder_thread ==
  /\ ui.pc = "join"
  /\ wait(thr[reminder_thread])
  /\ LET t == FreeThread IN
       /\ thr' = [thr EXCEPT ![t] = NewThread(reminders)]
       /\ reminder_thread' = t
       /\ lists' = Collect(lists, {reminders} \cup ThreadRefs(thr'))
  /\ ui' = [pc |-> "idle", op |-> "none",
            printed |-> "Reminder thread stopped."]
  /\ UNCHANGED <<now, file, rec, reminders, reminder_list, dialog, emits,
                 PLYER_AVAILABLE, delivered, shown,
                 tray_visible, is_hidden, earlier>>

\* stop_reminder_thread called on its own: stop() up to its wait() ...
stop_reminder_thread ==
  /\ ui.pc = "idle"
  /\ reminder_thread # None
  /\ thr' = stop(thr, reminder_thread)
  /\ ui' = [ui EXCEPT !.pc = "join", !.op = "stop"]
  /\ UNCHANGED <<now, file, rec, lists, reminders, reminder_list,
                 reminder_thread, dialog, emits,
                 PLYER_AVAILABLE, delivered, shown,
                 tray_visible, is_hidden, earlier>>

\* ... and the return of wait() and of stop(), with the print of line 226
stop_returns ==
  /\ ui.pc = "join"
  /\ ui.op = "stop"
  /\ wait(thr[reminder_thread])
  /\ ui' = [pc |-> "idle", op |-> "stop", printed |-> "Reminder thread stopped."]
  /\ UNCHANGED <<now, file, rec, lists, reminders, reminder_list,
                 reminder_thread, thr, dialog, emits,
                 PLYER_AVAILABLE, delivered, shown,
                 tray_visible, is_hidden, earlier>>

\* ------------------------------------------------- the end of a run

\* app.exec() returns and sys.exit ends the process, its threads with it,
\* leaving `f` as reminders.json.  The reminders of the store whose
\* due-event has been emitted go into the history of the ended runs
ProcessExits(f) ==
  /\ file' = f
  /\ ui' = [pc |-> "exited", op |-> "none", printed |-> "none"]
  /\ thr' = [t \in Threads |-> NoThread]
  /\ reminder_thread' = None
  /\ earlier' = earlier \cup
                  { rec[r].id : r \in { q \in Range(Store) : emits[q] # <<>> } }
  /\ UNCHANGED <<now, rec, lists, reminders, reminder_list, dialog, emits,
                 PLYER_AVAILABLE, delivered, shown, tray_visible, is_hidden>>

\* the window stays open, hidden to the tray
HideToTray ==
  /\ is_hidden' = TRUE
  /\ ui' = [ui EXCEPT !.printed = "Minimizing to system tray."]
  /\ UNCHANGED <<now, file, rec, lists, reminders, reminder_list,
                 reminder_thread, thr, dialog, emits,
                 PLYER_AVAILABLE, delivered, shown, tray_visible, earlier>>

\* closeEvent, the user closing the window: with a tray icon the event is
\* ignored and the window hidden; without one save_reminders runs, the event
\* is accepted and, the last window being closed, the application quits
closeEvent ==
  /\ ui.pc = "idle"
  /\ ~ is_hidden
  /\ IF tray_visible
     THEN HideToTray
     ELSE ProcessExits(save_reminders(rec, Store))

\* Quit of the tray menu, connected to QApplication.quit: the application
\* asks its visible windows to close, and quits unless one ignores its
\* closeEvent, as the window of ReminderApp does while it is shown
quit ==
  /\ ui.pc = "idle"
  /\ tray_visible
  /\ IF ~ is_hidden
     THEN HideToTray
     ELSE ProcessExits(file)

\* show_window: Show Reminders of the tray menu, or a click on the icon
show_window ==
  /\ ui.pc = "idle"
  /\ tray_visible
  /\ is_hidden
  /\ is_hidden' = FALSE
  /\ UNCHANGED <<now, file, rec, lists, reminders, reminder_list,
                 reminder_thread, thr, ui, dialog, emits,
                 PLYER_AVAILABLE, delivered, shown, tray_visible, earlier>>

\* main.py run again after the process has ended: a new process, the
\* file being the one the last run left
main ==
  /\ ui.pc = "exited"
  /\ rec' = <<>>
  /\ lists' = [l \in ListIds |-> <<>>]
  /\ reminders' = 1
  /\ reminder_list' = <<>>
  /\ ui' = [pc |-> "init", op |-> "none", printed |-> "none"]
  /\ dialog' = "none"
  /\ emits' = <<>>
  /\ delivered' = <<>>
  /\ shown' = NoNotification
  /\ is_hidden' = FALSE
  /\ UNCHANGED <<now, file, reminder_thread, thr, PLYER_AVAILABLE,
                 tray_visible, earlier>>

\* every thread and the UI interleaved
Next ==
  \/ Tick
  \/ ReminderApp_init
  \/ \E t \in Threads : RunLoop(t)
  \/ \E t \in Threads : RunCheck(t)
  \/ \E t \in Threads : RunMark(t)
  \/ Len(rec) < MaxReminders /\ \E raw \in OneText, d \in DateTimes :
       add_reminder(raw, d)
  \/ \E sel \in 0 .. Len(reminder_list), confirm \in BOOLEAN :
       delete_reminder(sel, confirm)
  \/ \E sel \in 1 .. Len(reminder_list) :
       edit_reminder_dialog(sel, FALSE, <<>>, now)
  \/ \E sel \in 1 .. Len(reminder_list), raw \in OneText, d \in DateTimes :
       edit_reminder_dialog(sel, TRUE, raw, d)
  \/ message_box_closed
  \/ restart_reminder_thread

Spec == Init /\ [][Next]_vars

\* the handlers one after the other with everything the user can enter:
\* of the checker threads only the step that wait() waits for, the return of
\* the stopped thread's run()
NextUI ==
  \/ Tick
  \/ ReminderApp_init
  \/ ui.pc = "join" /\ RunLoop(reminder_thread)
  \/ Len(rec) < MaxStore /\ \E raw \in RawTexts, d \in DateTimes :
       add_reminder(raw, d)
  \/ \E sel \in 0 .. Len(reminder_list), confirm \in BOOLEAN :
       delete_reminder(sel, confirm)
  \/ \E sel \in 1 .. Len(reminder_list) :
       edit_reminder_dialog(sel, FALSE, <<>>, now)
  \/ \E sel \in 1 .. Len(reminder_list), raw \in RawTexts, d \in DateTimes :
       edit_reminder_dialog(sel, TRUE, raw, d)
  \/ message_box_closed
  \/ restart_reminder_thread

SpecUI == Init /\ [][NextUI]_vars

\* one checker thread alone: the thread of self.reminder_thread scanning
\* the store loaded from a file of up to MaxScan records
InitScan ==
  /\ now \in 0 .. MaxTime
  /\ PLYER_AVAILABLE = TRUE
  /\ tray_visible = TRUE
  /\ \E f \in Files(MaxScan, TwoTexts) : Start(f)

NextScan ==
  \/ Tick
  \/ ReminderApp_init
  \/ reminder_thread # None /\ RunLoop(reminder_thread)
  \/ reminder_thread # None /\ RunCheck(reminder_thread)
  \/ reminder_thread # None /\ RunMark(reminder_thread)

SpecScan == InitScan /\ [][NextScan]_vars

\* the checker thread of a store loaded from a file and the slot that shows
\* its due-events, with plyer installed or not
InitNotify ==
  /\ now \in 0 .. MaxTime
  /\ PLYER_AVAILABLE \in BOOLEAN
  /\ tray_visible = TRUE
  /\ \E f \in Files(MaxScan, TwoTexts) : Start(f)

NextNotify ==
  \/ Tick
  \/ ReminderApp_init
  \/ reminder_thread # None /\ RunLoop(reminder_thread)
  \/ reminder_thread # None /\ RunCheck(reminder_thread)
  \/ reminder_thread # None /\ RunMark(reminder_thread)
  \/ \E r \in 1 .. Len(rec), raises \in BOOLEAN : show_notification(r, raises)
  \/ message_box_closed

SpecNotify == InitNotify /\ [][NextNotify]_vars

\* the start of the program on any reminders.json, and its checker thread
InitLoad ==
  /\ now \in 0 .. MaxTime
  /\ PLYER_AVAILABLE = TRUE
  /\ tray_visible = TRUE
  /\ \E f \in AnyFiles : Start(f)

NextLoad ==
  \/ Tick
  \/ ReminderApp_init
  \/ reminder_thread # None /\ RunLoop(reminder_thread)
  \/ reminder_thread # None /\ RunCheck(reminder_thread)
  \/ reminder_thread # None /\ RunMark(reminder_thread)

SpecLoad == InitLoad /\ [][NextLoad]_vars

\* every thread and the UI interleaved, on a file in which only reminders
\* whose time has come are notified
InitRace ==
  /\ now = 0
  /\ PLYER_AVAILABLE = TRUE
  /\ tray_visible = TRUE
  /\ \E f \in Files(MaxFile, OneText) :
       /\ \A k \in 1 .. Len(f) :
            f[k].notified => FromIsoFormat(f[k].dateTime) <= now
       /\ Start(f)

SpecRace == InitRace /\ [][Next]_vars

\* runs of the program one after the other, each with its checker threads,
\* ended from the tray menu or by closing the window, with a tray or without
InitQuit ==
  /\ now = 0
  /\ PLYER_AVAILABLE = TRUE
  /\ tray_visible \in BOOLEAN
  /\ \E f \in Files(MaxFile, OneText) : Start(f)

NextQuit ==
  \/ Tick
  \/ ReminderApp_init
  \/ \E t \in Threads : RunLoop(t)
  \/ \E t \in Threads : RunCheck(t)
  \/ \E t \in Threads : RunMark(t)
  \/ closeEvent
  \/ quit
  \/ show_window
  \/ main

SpecQuit == InitQuit /\ [][NextQuit]_vars

\* stop() of the thread object of self.reminder_thread called any number of
\* times, at any point of the thread's run(), without a start() in between
NextStop ==
  \/ Tick
  \/ ReminderApp_init
  \/ reminder_thread # None /\ RunLoop(reminder_thread)
  \/ reminder_thread # None /\ RunCheck(reminder_thread)
  \/ reminder_thread # None /\ RunMark(reminder_thread)
  \/ stop_reminder_thread
  \/ stop_returns

SpecStop == InitScan /\ [][NextStop]_vars

\* a file edited by hand: json.load accepts NaN for the id
HandFiles ==
  { [k \in 1 .. Len(f) |-> [f[k] EXCEPT !.id = IF k \in nan THEN NaN ELSE @]] :
      f \in Files(MaxFile, OneText), nan \in SUBSET (1 .. MaxFile) }

InitHand ==
  /\ now = 0
  /\ PLYER_AVAILABLE = TRUE
  /\ tray_visible = TRUE
  /\ \E f \in HandFiles : Start(f)

SpecHand == InitHand /\ [][NextUI]_vars

\* the scheduler runs every thread that can run: a checker thread takes its
\* steps, the UI thread returns from wait().  A thread that was started makes
\* its first loop test before the UI thread, which has to go through another
\* handler with its file write, reaches the next stop()
Fairness ==
  /\ \A t \in Threads : WF_vars(RunLoop(t))
  /\ \A t \in Threads : WF_vars(RunCheck(t))
  /\ \A t \in Threads : WF_vars(RunMark(t))
  /\ \A t \in Threads : SF_vars(RunLoop(t) /\ thr[t].running)
  /\ WF_vars(restart_reminder_thread)

FairSpec == Init /\ [][Next]_vars /\ Fairness
\* ================================================================ claims

Dicts == 1 .. Len(rec)
InStore(r) == r \in Range(Store)
Emitted(r) == emits[r] # <<>>

\* ---------------------------------------------------------------- C1
\* C1: while the application runs, a reminder that is in the store, not
\* notified and due, and that is neither deleted nor edited afterwards,
\* eventually has its due-event emitted, whatever add, edit and delete do.
C1_DueIsEmitted ==
  \A r \in 1 .. (MaxFile + MaxReminders) :
    (r \in Dicts /\ InStore(r) /\ ~ rec[r].notified /\ rec[r].dateTime <= now)
      ~> (r \notin Dicts \/ ~ InStore(r) \/ rec[r].dateTime > now \/ Emitted(r))

\* ---------------------------------------------------------------- C2
\* C2: between its creation (or the last edit that reset notified) and the
\* next such edit, at most one due-event is emitted for a reminder.
C2_OneShot == \A r \in Dicts : Len(emits[r]) <= 1

\* ---------------------------------------------------------------- C3
\* C3: at most one checker thread is alive at any moment, and exactly one
\* once the application has started and no handler is running.
C3_OneChecker ==
  /\ Cardinality({ t \in Threads : Alive(t) }) <= 1
  /\ ui.pc = "idle" => Cardinality({ t \in Threads : Alive(t) }) = 1

\* ---------------------------------------------------------------- C4
\* C4: once an add, edit or delete has completed, every running checker
\* thread scans the records of the current store, and no due-event is
\* emitted for a reminder whose delete has completed.
DeleteDone(r) ==
  r \in Dicts /\ ~ InStore(r) /\ ~ (ui.pc = "join" /\ ui.op = "delete")

C4_SchedulerSeesStore ==
  /\ [](ui.pc = "idle" =>
          \A t \in Threads : Alive(t) => lists[thr[t].reminders] = Store)
  /\ [][\A r \in Dicts : DeleteDone(r) => emits'[r] = emits[r]]_vars

\* ---------------------------------------------------------------- C5
\* C5: one wake of the checker, with the one now it captured, emits exactly
\* one due-event for each record that was not notified and has due_at <= now,
\* carrying that record's text, and sets the record's notified.
WakeEnds(t) == thr[t].pc \in {"scan", "mark"} /\ thr'[t].pc = "sleep"

C5_WakeEmitsDue ==
  [][\A t \in Threads : WakeEnds(t) =>
       \A k \in 1 .. Len(thr[t].snap) :
         LET r == thr[t].snap[k] IN
           rec'[r].dateTime <= thr[t].now_aware =>
             rec'[r].notified /\ emits'[r] = <<rec'[r].text>>]_vars

\* the wake is over and a record the file had as not notified is notified,
\* with one due-event carrying its text
C5_Witness ==
  /\ ui.pc = "idle"
  /\ thr[reminder_thread].pc = "sleep"
  /\ \E r \in Dicts, k \in 1 .. Len(file) :
       /\ file[k].id = rec[r].id /\ ~ file[k].notified
       /\ rec[r].notified /\ emits[r] = <<rec[r].text>>

\* ---------------------------------------------------------------- C6
\* C6: a wake emits no due-event for, and leaves unchanged, every record
\* whose due_at is after the captured now and every record that is already
\* notified.
C6_WakeLeavesNotDue ==
  [][\A t \in Threads, r \in Dicts :
       (thr[t].pc \in {"scan", "mark"}
          /\ (rec[r].notified \/ rec[r].dateTime > thr[t].now_aware))
       => (rec'[r] = rec[r] /\ emits'[r] = emits[r])]_vars

\* the wake is over and a record of the store that is not yet due is as the
\* file had it, without a due-event
C6_Witness ==
  /\ ui.pc = "idle"
  /\ thr[reminder_thread].pc = "sleep"
  /\ \E r \in Dicts :
       InStore(r) /\ rec[r].dateTime > now /\ ~ rec[r].notified /\ emits[r] = <<>>

\* ---------------------------------------------------------------- C7
Blank(raw) == \A k \in 1 .. Len(raw) : raw[k] = " "

Sorted(h, s) ==
  \A i, j \in 1 .. Len(s) : i < j => h[s[i]].dateTime <= h[s[j]].dateTime

\* C7: add with a non-empty text and a future due_at puts exactly one new
\* record in the list, with that text and due_at and notified false; the
\* records that were there are still there, and the list is sorted by due_at.
C7_AddInsertsSorted ==
  [][\A raw \in RawTexts, d \in DateTimes :
       (~ Blank(raw) /\ d > now /\ add_reminder(raw, d)) =>
         LET n == Len(rec') IN
           /\ n = Len(rec) + 1
           /\ \A r \in Dicts : rec'[r] = rec[r]
           /\ rec'[n].text = Strip(raw) /\ rec'[n].dateTime = d
           /\ ~ rec'[n].notified
           /\ \A r \in Dicts : ~ IdEq(rec[r].id, rec'[n].id)
           /\ Len(Store') = Len(Store) + 1
           /\ Range(Store') = Range(Store) \cup {n}
           /\ Sorted(rec', Store')]_vars

\* an add has put its record before one that was in the list
C7_Witness ==
  /\ ui.pc = "join" /\ ui.op = "add"
  /\ Len(Store) >= 2
  /\ Store[1] = Len(rec)
  /\ rec[Store[1]].dateTime < rec[Store[2]].dateTime

\* ---------------------------------------------------------------- C8
InputErrors ==
  { "Reminder text cannot be empty.",
    "Please select a future date and time.",
    "Cannot set reminder time to the past or present." }

\* C8: add or edit with a text that is empty after trimming, or with
\* due_at <= now, reports an input error and leaves the store as it was:
\* a step either shows an input error over an unchanged store and file, or
\* it is not an add or an accepted edit with such an input.
C8_InvalidInputKeepsStore ==
  [][\/ /\ dialog' \in InputErrors
        /\ rec' = rec /\ lists' = lists /\ reminders' = reminders
        /\ file' = file /\ reminder_list' = reminder_list
     \/ \A raw \in RawTexts, d \in DateTimes :
          (Blank(raw) \/ d <= now) =>
            /\ ~ add_reminder(raw, d)
            /\ \A sel \in 1 .. Len(reminder_list) :
                 ~ edit_reminder_dialog(sel, TRUE, raw, d)]_vars

\* an input error is on the screen over a store that has a record
C8_Witness ==
  /\ dialog \in InputErrors
  /\ ui.pc = "box"
  /\ Store # <<>>

\* ---------------------------------------------------------------- C9
\* C9: a successful edit resets notified to false if the record was notified
\* or its previous due_at was <= now, and leaves the notified of a record
\* that is still in the future and was never notified as it is.
C9_EditNotifiedRule ==
  [][\A sel \in 1 .. Len(reminder_list), raw \in RawTexts, d \in DateTimes :
       (~ Blank(raw) /\ d > now /\ edit_reminder_dialog(sel, TRUE, raw, d)) =>
         LET r == FindById(rec, Store, reminder_list[sel]) IN
           /\ r # None
           /\ rec'[r].notified =
                IF rec[r].notified \/ rec[r].dateTime <= now
                THEN FALSE ELSE rec[r].notified]_vars

\* an edit has reset the notified of a record
C9_Witness ==
  /\ ui.pc = "join" /\ ui.op = "edit"
  /\ ui.printed = "Resetting notification status"
  /\ \E r \in Dicts : InStore(r) /\ ~ rec[r].notified /\ rec[r].dateTime > now

\* --------------------------------------------------------------- C10
\* C10: delete on an id that is not in the store signals an error and leaves
\* the store unchanged.
C10_DeleteUnknownId ==
  [][\A sel \in 1 .. Len(reminder_list) :
       (FindById(rec, Store, reminder_list[sel]) = None
          /\ delete_reminder(sel, TRUE))
       => (dialog' # "none" /\ rec' = rec /\ Store' = Store)]_vars

\* --------------------------------------------------------------- C11
\* C11: a confirmed delete of an id that is in the store removes exactly the
\* record with that id: no record of the store has the id afterwards, one
\* record less is in the store, and the others are there in the same order
\* with their text, due_at and notified unchanged.
C11_DeleteRemovesOne ==
  [][\A sel \in 1 .. Len(reminder_list) :
       LET id == reminder_list[sel] IN
         ((\E k \in 1 .. Len(Store) : rec[Store[k]].id = id)
            /\ delete_reminder(sel, TRUE))
         => /\ \A k \in 1 .. Len(Store') : rec'[Store'[k]].id # id
            /\ Len(Store') = Len(Store) - 1
            /\ Store' = SelectSeq(Store, LAMBDA r : rec[r].id # id)
            /\ rec' = rec]_vars

\* a delete has taken one record out of a store that still has one
C11_Witness ==
  /\ ui.pc = "join" /\ ui.op = "delete"
  /\ Len(Store) >= 1
  /\ \E r \in Dicts : ~ InStore(r)

\* --------------------------------------------------------------- C12
\* C12: after load and after every add, edit and delete, in any sequence,
\* the records of the store are in ascending order of due_at.
C12_StoreSorted == Sorted(rec, Store)

\* an edit has moved a record before one that was created earlier
C12_Witness ==
  /\ ui.pc = "join" /\ ui.op = "edit"
  /\ Len(Store) >= 2
  /\ Store[1] > Store[2]
  /\ rec[Store[1]].dateTime < rec[Store[2]].dateTime

C16_StopJoins ==
  /\ [][(ui.pc = "join" /\ ui'.pc = "idle") =>
          thr[reminder_thread].pc = "done"]_vars
  /\ [][ui.printed = "Reminder thread stopped." =>
          /\ thr[reminder_thread].pc = "done"
          /\ thr' = thr /\ emits' = emits /\ rec' = rec]_vars

\* stop() is called again on a thread that has exited after a wake in which
\* it marked a record
C16_Witness ==
  /\ ui.pc = "join" /\ ui.op = "stop"
  /\ ui.printed = "Reminder thread stopped."
  /\ \E r \in Dicts, k \in 1 .. Len(file) :
       /\ file[k].id = rec[r].id /\ ~ file[k].notified
       /\ rec[r].notified /\ Len(emits[r]) = 1

\* --------------------------------------------------------------- C17
\* C17: every due-event handed to show_notification ends with the native
\* notification of its title and message, which needs plyer and a
\* notify that returns, or with the fallback box open, titled with the same
\* title and showing the message in full followed by the note that the native
\* notification failed; none ends with neither.
C17_NoSilentLoss ==
  [][\A r \in DOMAIN delivered \cap DOMAIN delivered' :
       delivered'[r] # delivered[r] =>
         LET title == rec[r].text
             message == "Reminder set for " \o HourMinute(rec[r].dateTime)
         IN /\ delivered'[r] = delivered[r] + 1
            /\ delivered'[r] <= Len(emits[r])
            /\ shown'.title = title
            /\ \/ /\ shown'.how = "native"
                  /\ PLYER_AVAILABLE
                  /\ shown'.message = message
               \/ /\ shown'.how = "box"
                  /\ shown'.message =
                       message \o " (Error displaying native notification)"
                  /\ ui'.pc = "box"
                  /\ dialog' = shown'.message]_vars

\* with plyer installed, notify has raised for the due-event of a record
\* that was not notified in the file, and the fallback box is open
C17_Witness ==
  /\ PLYER_AVAILABLE
  /\ shown.how = "box" /\ ui.pc = "box"
  /\ shown.message = dialog
  /\ \E r \in Dicts, k \in 1 .. Len(file) :
       /\ file[k].id = rec[r].id /\ ~ file[k].notified
       /\ shown.title = rec[r].text
       /\ delivered[r] = 1

\* --------------------------------------------------------------- C18
\* a JSON object with every field of a reminder and a dateTime that parses
Sound(item) == Loadable(item) /\ {"id", "text", "notified"} \subseteq DOMAIN item

\* C18: whatever reminders.json holds, the start of the program goes
\* through; a file that is missing, empty or not JSON gives an empty store,
\* and of a JSON array every sound record is loaded and every loaded record
\* is one of the file whose dateTime parses.
C18_LoadTolerates ==
  ui.pc # "init" =>
    /\ ui.pc # "crashed"
    /\ Unreadable(file) => Store = <<>>
    /\ ~ Unreadable(file) =>
         /\ \A k \in 1 .. Len(file) :
              Sound(file[k]) =>
                \E r \in Range(Store) :
                  /\ rec[r].id = file[k].id
                  /\ rec[r].dateTime = FromIsoFormat(file[k].dateTime)
         /\ \A r \in Range(Store) :
              \E k \in 1 .. Len(file) :
                /\ Loadable(file[k]) /\ "id" \in DOMAIN file[k]
                /\ rec[r].id = file[k].id
                /\ rec[r].dateTime = FromIsoFormat(file[k].dateTime)

\* --------------------------------------------------------------- C19
\* C19: a checker thread's run() ends only after stop() was called on it,
\* and the step of a wake at a record whose text is not a string leaves the
\* record and the due-events as they are and goes on to the next element
\* of the wake.
C19_LoopSurvives ==
  /\ [](\A t \in Threads : thr[t].pc = "done" => ~ thr[t].running)
  /\ [][\A t \in Threads :
          (/\ thr[t].pc = "scan"
           /\ ~ IsStr(rec[thr[t].snap[thr[t].i]].text)
           /\ thr'[t] # thr[t])
          => /\ thr'[t] = NextElement(thr[t])
             /\ rec' = rec
             /\ emits' = emits]_vars

C21_NotifiedIsPast ==
  (ui.pc = "idle" /\ \A t \in Threads : thr[t].pc \notin {"scan", "mark"}) =>
    \A r \in Range(Store) : rec[r].notified => rec[r].dateTime <= now

\* --------------------------------------------------------------- C22
\* C22: when a run of the program ends, the file it leaves holds as
\* notified every reminder of the store whose due-event has been emitted;
\* and no due-event is emitted for a reminder whose due-event was emitted
\* in a run that has ended (no run of this specification edits a reminder).
C22_NotifiedSurvivesQuit ==
  /\ [][(ui.pc # "exited" /\ ui'.pc = "exited") =>
          \A r \in Range(Store) :
            emits[r] # <<>> =>
              \E k \in 1 .. Len(file') :
                file'[k].id = rec[r].id /\ file'[k].notified]_vars
  /\ [][\A r \in DOMAIN emits \cap DOMAIN emits' :
          rec[r].id \in earlier => Len(emits'[r]) <= Len(emits[r])]_vars
====
